---- MODULE Spec2Model ----
(***************************************************************************)
(* A model of migrate.py: the Strapi 3 -> Strapi 4 migration script.       *)
(*                                                                         *)
(* JSON values are tagged records; a mapping is the ordered sequence of   *)
(* its items (Python dicts keep insertion order).  Text that the script   *)
(* takes apart (the RELATIONSHIP_FIELDS setting, media urls) is a         *)
(* sequence of chunks in which every separator is a chunk of its own.     *)
(* Every HTTP request of the script is one step of the model.             *)
(***************************************************************************)
EXTENDS Integers, Sequences, FiniteSets, TLC

\* ------------------------------------------------------------------ bounds
MaxEntries == 2     \* most entries held by the source
MaxBatch == 2       \* largest BATCH_SIZE tried

\* ------------------------------------------------------------ JSON values
JNone == [t |-> "none"]
JInt(n) == [t |-> "int", n |-> n]
JStr(s) == [t |-> "str", s |-> s]
JDict(items) == [t |-> "dict", items |-> items]
JList(elems) == [t |-> "list", elems |-> elems]
Item(k, v) == [k |-> k, v |-> v]

IsDict(v) == v.t = "dict"
IsList(v) == v.t = "list"

\* `k in d`, d.get(k), d[k] = v, d.pop(k, None) on the items of a mapping
HasKey(d, k) == \E i \in 1..Len(d) : d[i].k = k
Get(d, k) == IF HasKey(d, k) THEN d[CHOOSE i \in 1..Len(d) : d[i].k = k].v ELSE JNone
SetItem(d, k, v) ==
    IF HasKey(d, k)
    THEN [i \in 1..Len(d) |-> IF d[i].k = k THEN Item(k, v) ELSE d[i]]
    ELSE Append(d, Item(k, v))
Pop(d, k) == SelectSeq(d, LAMBDA it : it.k # k)

\* Python truth value
Truthy(v) ==
    CASE v.t = "none" -> FALSE
      [] v.t = "int" -> v.n # 0
      [] v.t = "str" -> v.s # <<>>
      [] v.t = "dict" -> v.items # <<>>
      [] v.t = "list" -> v.elems # <<>>

\* ------------------------------------------------------------------- text
RECURSIVE Cat(_)
Cat(chunks) == IF chunks = <<>> THEN "" ELSE Head(chunks) \o Cat(Tail(chunks))

\* str.split(sep): the pieces between separators, as strings; "" gives [""]
RECURSIVE SplitFrom(_, _, _)
SplitFrom(s, sep, cur) ==
    IF s = <<>> THEN <<Cat(cur)>>
    ELSE IF Head(s) = sep THEN <<Cat(cur)>> \o SplitFrom(Tail(s), sep, <<>>)
    ELSE SplitFrom(Tail(s), sep, Append(cur, Head(s)))
Split(s, sep) == SplitFrom(s, sep, <<>>)

Range(s) == {s[i] : i \in 1..Len(s)}

\* x bound to a value in F, for a value used more than once
With(x, F(_)) == F(x)
Last(s) == s[Len(s)]

\* ---------------------------------------------------------- configuration
STRAPI_3_BASE_URL == <<"http:", "/", "/", "s3">>

\* urllib.parse.urljoin against a base without a path: an absolute url is
\* kept, a rooted path replaces the path, a bare name is put under the root
urljoin(base, url) ==
    IF url # <<>> /\ Head(url) = "http:" THEN url
    ELSE IF url # <<>> /\ Head(url) = "/" THEN base \o url
    ELSE base \o <<"/">> \o url

VARIABLES
    relEnv,       \* the text of the RELATIONSHIP_FIELDS setting ("" if unset)
    BATCH_SIZE,   \* the page size
    source,       \* the entries the source holds for STRAPI_3_MODEL
    dest,         \* rows of the destination's related collections
    pc,           \* where main() is: auth, fetch, loop, transform, done, failed
    page,         \* fetch_entries_from_strapi_3: page
    entries,      \* fetch_entries_from_strapi_3: entries
    idx,          \* create_entries_in_strapi_4: position of the current entry
    ops,          \* requests the current entry's passes still have to make
    payload,      \* the entry as it stands when the passes finish
    files,        \* names of the files in the working directory
    nextMedia,    \* id the destination gives to the next upload
    pageLog,      \* history: page requests, [start, status, size]
    destLog,      \* history: requests sent to the destination
    transfers,    \* history: transfers, [url, id], id 0 until uploaded
    created,      \* history: creation requests, [k, data, files]
    printed,      \* what the last creation request made the script print
    errors        \* history: failed requests and raised errors, [stage, at, why]

vars == <<relEnv, BATCH_SIZE, source, dest, pc, page, entries, idx, ops, payload,
          files, nextMedia, pageLog, destLog, transfers, created, printed, errors>>

\* os.getenv("RELATIONSHIP_FIELDS", "").split(",")
RELATIONSHIP_FIELDS == Split(relEnv, ",")
\* the concrete set: `field not in RELATIONSHIP_FIELDS` (line 62)
IsRelationshipField(field) == field \in Range(RELATIONSHIP_FIELDS)

\* ------------------------------------------- requests made by the passes
\* The passes of one entry are run ahead against the destination's data to
\* get the requests they make, in order, and the entry they leave; the
\* actions below then issue the requests one by one.  st = [ops, next, err]:
\* the requests so far, the id of the next upload, whether a pass raised.
DownloadOp(url) == [op |-> "download", url |-> url]
UploadOp(file, id) == [op |-> "upload", file |-> file, id |-> id]
LookupOp(model, old) == [op |-> "lookup", model |-> model, old |-> old]
RaiseOp(why) == [op |-> "raise", why |-> why]

Raise(st, why) == [st EXCEPT !.ops = Append(@, RaiseOp(why)), !.err = TRUE]

\* download_media: file_name = media_url.split("/")[-1]
file_name(media_url) == Last(Split(media_url, "/"))

\* upload_media_to_strapi_4: response.json()[0], the uploaded media metadata
uploaded_media(file_path, id) == <<Item("id", JInt(id)), Item("name", JStr(<<file_path>>))>>

\* lines 118-120 and 126-128: urljoin, download_media, upload_media_to_strapi_4;
\* gives the state after the two requests and the metadata of the upload
Transfer(url, st) ==
    IF url.t # "str" THEN [st |-> Raise(st, "TypeError"), media |-> <<>>]
    ELSE With(file_name(urljoin(STRAPI_3_BASE_URL, url.s)), LAMBDA file_path :
              [st |-> [st EXCEPT !.ops = @ \o
                          <<DownloadOp(urljoin(STRAPI_3_BASE_URL, url.s)),
                            UploadOp(file_path, st.next)>>,
                       !.next = @ + 1],
               media |-> uploaded_media(file_path, st.next)])

\* line 121: entry[field] = uploaded_media["id"]
single_media_value(media) == Get(media, "id")

\* line 129: media_ids.append(uploaded_media["id"]) (mutant: prepends)
media_ids_append_front(media_ids, media) == <<Get(media, "id")>> \o media_ids
media_ids_append(media_ids, media) == Append(media_ids, Get(media, "id"))

IsMedia(value) == IsDict(value) /\ Truthy(Get(value.items, "url"))
IsMediaList(value) ==
    IsList(value) /\ \A i \in 1..Len(value.elems) :
        IsDict(value.elems[i]) /\ Truthy(Get(value.elems[i].items, "url"))

\* lines 124-129: one transfer per item, in order
RECURSIVE MediaItems(_, _, _)
MediaItems(value, media_ids, st) ==
    IF value = <<>> \/ st.err THEN [ids |-> media_ids, st |-> st]
    ELSE With(Transfer(Get(Head(value).items, "url"), st), LAMBDA t :
              MediaItems(Tail(value), media_ids_append(media_ids, t.media), t.st))

\* lines 116-130: the loop over entry.items(), from the i-th item on
RECURSIVE MediaFrom(_, _, _)
MediaFrom(entry, i, st) ==
    IF i > Len(entry) \/ st.err THEN [entry |-> entry, st |-> st]
    ELSE IF IsMedia(entry[i].v)
    THEN With(Transfer(Get(entry[i].v.items, "url"), st), LAMBDA t :
              MediaFrom(SetItem(entry, entry[i].k, single_media_value(t.media)),
                        i + 1, t.st))
    ELSE IF IsMediaList(entry[i].v)
    THEN With(MediaItems(entry[i].v.elems, <<>>, st), LAMBDA r :
              MediaFrom(SetItem(entry, entry[i].k, JList(r.ids)), i + 1, r.st))
    ELSE MediaFrom(entry, i + 1, st)

handle_media_fields(entry, st) == MediaFrom(entry, 1, st)

\* ---------------------------------------------------- relationship pass
\* GET /api/{model_name}s with filters[old_id][$eq]: the matching rows
DestQuery(model_name, old_id) ==
    SelectSeq(dest, LAMBDA row : /\ row.coll = model_name \o "s"
                                 /\ old_id.t = "int"
                                 /\ row.old_id = old_id.n)

\* lines 88-91: `if data: return data[0]["id"] else: raise ValueError`
\* (mutant: an empty result does not raise)
not_found_ignored(data) == FALSE
not_found(data) == data = <<>>
first_match(data) == IF data # <<>> THEN JInt(data[1].id) ELSE JNone

\* fetch_related_id_in_strapi_4 as the passes see it
Resolve(model_name, old_id, st) ==
    With(DestQuery(model_name, old_id), LAMBDA data :
         [st |-> [st EXCEPT !.ops = Append(@, LookupOp(model_name, old_id)),
                            !.err = not_found(data)],
          id |-> first_match(data)])

\* lines 68 and 74: {"connect": [{"id": rid} for rid in related_ids]}
Connect(related_ids) ==
    JDict(<<Item("connect",
                 JList([i \in 1..Len(related_ids) |->
                           JDict(<<Item("id", related_ids[i])>>)]))>>)

\* line 69: all("id" in v for v in value); `in` on a number raises
RECURSIVE AllHaveId(_)
AllHaveId(value) ==
    IF value = <<>> THEN "true"
    ELSE LET v == Head(value)
         IN CASE v.t = "dict" ->
                   IF HasKey(v.items, "id") THEN AllHaveId(Tail(value)) ELSE "false"
              [] v.t = "str" ->
                   IF "id" \in Range(v.s) THEN AllHaveId(Tail(value)) ELSE "false"
              [] v.t = "list" ->
                   IF \E j \in 1..Len(v.elems) :
                          v.elems[j].t = "str" /\ v.elems[j].s = <<"id">>
                   THEN AllHaveId(Tail(value)) ELSE "false"
              [] OTHER -> "raise"

\* lines 71-73: one lookup per element, in order; v["id"] needs a mapping
RECURSIVE RelItems(_, _, _, _)
RelItems(related_model, value, related_ids, st) ==
    IF value = <<>> \/ st.err THEN [ids |-> related_ids, st |-> st]
    ELSE IF ~IsDict(Head(value))
    THEN [ids |-> related_ids, st |-> Raise(st, "TypeError")]
    ELSE With(Resolve(related_model, Get(Head(value).items, "id"), st), LAMBDA r :
              RelItems(related_model, Tail(value), Append(related_ids, r.id), r.st))

\* lines 61-74: the loop over entry.items(), from the i-th item on
RECURSIVE RelFrom(_, _, _)
RelFrom(entry, i, st) ==
    IF i > Len(entry) \/ st.err THEN [entry |-> entry, st |-> st]
    ELSE IF ~IsRelationshipField(entry[i].k) THEN RelFrom(entry, i + 1, st)
    ELSE IF IsDict(entry[i].v) /\ HasKey(entry[i].v.items, "id")
    THEN With(Resolve(entry[i].k, Get(entry[i].v.items, "id"), st), LAMBDA r :
              RelFrom(SetItem(entry, entry[i].k, Connect(<<r.id>>)), i + 1, r.st))
    ELSE IF IsList(entry[i].v)
    THEN With(AllHaveId(entry[i].v.elems), LAMBDA all :
              IF all = "raise" THEN [entry |-> entry, st |-> Raise(st, "TypeError")]
              ELSE IF all = "true"
              THEN With(RelItems(entry[i].k, entry[i].v.elems, <<>>, st), LAMBDA r :
                        RelFrom(SetItem(entry, entry[i].k, Connect(r.ids)),
                                i + 1, r.st))
              ELSE RelFrom(entry, i + 1, st))
    ELSE RelFrom(entry, i + 1, st)

map_relationships(entry, st) == RelFrom(entry, 1, st)

\* ---------------------------------------------------- component descent
IsComponentList(value) ==
    IsList(value) /\ \A i \in 1..Len(value.elems) : IsDict(value.elems[i])

\* a descent that goes one level further: the passes are also applied to the
\* mappings a component holds
RECURSIVE DeepFrom(_, _, _)
DeepFrom(entry, i, st) ==
    IF i > Len(entry) \/ st.err THEN [entry |-> entry, st |-> st]
    ELSE IF IsDict(entry[i].v)
    THEN With(handle_media_fields(entry[i].v.items, st), LAMBDA m :
         With(map_relationships(m.entry, m.st), LAMBDA r :
              DeepFrom(SetItem(entry, entry[i].k, JDict(r.entry)), i + 1, r.st)))
    ELSE DeepFrom(entry, i + 1, st)

component_passes_deep(component, st) ==
    With(handle_media_fields(component.items, st), LAMBDA m :
    With(map_relationships(m.entry, m.st), LAMBDA r :
    With(DeepFrom(r.entry, 1, r.st), LAMBDA d :
         [value |-> JDict(d.entry), st |-> d.st])))

\* lines 104-106 and 108-109: the two passes on one component, in place
\* (mutant: component_passes_deep)
component_passes(component, st) ==
    With(handle_media_fields(component.items, st), LAMBDA m :
    With(map_relationships(m.entry, m.st), LAMBDA r :
         [value |-> JDict(r.entry), st |-> r.st]))

\* lines 102-106: for component in value
RECURSIVE ComponentItems(_, _, _)
ComponentItems(value, done, st) ==
    IF value = <<>> \/ st.err THEN [elems |-> done \o value, st |-> st]
    ELSE With(component_passes(Head(value), st), LAMBDA c :
              ComponentItems(Tail(value), Append(done, c.value), c.st))

\* lines 98-109: the loop over entry.items(), from the i-th item on
RECURSIVE ComponentsFrom(_, _, _)
ComponentsFrom(entry, i, st) ==
    IF i > Len(entry) \/ st.err THEN [entry |-> entry, st |-> st]
    ELSE IF IsComponentList(entry[i].v)
    THEN With(ComponentItems(entry[i].v.elems, <<>>, st), LAMBDA r :
              ComponentsFrom(SetItem(entry, entry[i].k, JList(r.elems)), i + 1, r.st))
    ELSE IF IsDict(entry[i].v)
    THEN With(component_passes(entry[i].v, st), LAMBDA c :
              ComponentsFrom(SetItem(entry, entry[i].k, c.value), i + 1, c.st))
    ELSE ComponentsFrom(entry, i + 1, st)

handle_components(entry, st) == ComponentsFrom(entry, 1, st)

\* ------------------------------------------------------------ one entry
\* lines 161-166: entry["old_id"] = entry["id"], then the three pops
\* (mutant: the source id is left in the entry)
strip_metadata_keep_id(entry) ==
    Pop(Pop(SetItem(entry, "old_id", Get(entry, "id")), "created_at"), "updated_at")
strip_metadata(entry) ==
    Pop(Pop(Pop(SetItem(entry, "old_id", Get(entry, "id")), "id"),
            "created_at"), "updated_at")

\* lines 161-173: what the passes do to one entry when every request succeeds
Transform(entry, next) ==
    With(handle_media_fields(strip_metadata(entry),
                             [ops |-> <<>>, next |-> next, err |-> FALSE]), LAMBDA m :
    With(map_relationships(m.entry, m.st), LAMBDA r :
    With(handle_components(r.entry, r.st), LAMBDA c :
         [payload |-> c.entry, ops |-> c.st.ops])))

\* ------------------------------------------------------------ environment
Url(name) == JStr(<<"/", "uploads", "/", name>>)
Media(name) == JDict(<<Item("url", Url(name))>>)
Ref(id) == JDict(<<Item("id", JInt(id))>>)

\* a component holding a media field, a relation and a component of its own
Inner == JDict(<<Item("img", Media("in.png")), Item("a", Ref(9))>>)
Component(name) ==
    JDict(<<Item("img", Media(name)), Item("a", Ref(9)), Item("inner", Inner)>>)

\* the fields (besides id) of the entries the source may hold
Samples ==
    << <<Item("title", JStr(<<"A">>)), Item("created_at", JInt(1)),
         Item("updated_at", JInt(2)), Item("cover", Media("img.png")),
         Item("gallery", JList(<<Media("a.png"), Media("b.png")>>))>>,
       <<Item("a", Ref(9)), Item("b", JList(<<Ref(9), Ref(8)>>))>>,
       <<Item("a", JDict(<<Item("id", JInt(9)), Item("url", Url("a.png"))>>))>>,
       <<Item("c", Component("c.png")), Item("d", JList(<<Component("d.png")>>))>>,
       <<Item("", Ref(9)), Item("a", JList(<<>>)), Item("gallery", JList(<<>>))>>,
       <<Item("b", JList(<<Media("a.png")>>)), Item("a", Ref(7))>> >>

\* the source's entries: ids are given in order, starting at 11
SourceOf(pick) ==
    [i \in 1..Len(pick) |-> <<Item("id", JInt(10 + i))>> \o Samples[pick[i]]]
Sources ==
    {SourceOf(pick) : pick \in UNION {[1..n -> DOMAIN Samples] : n \in 0..MaxEntries}}

\* the setting: unset, one name, two names
RelEnvs == {<<>>, <<"a">>, <<"a", ",", "b">>}

Row(coll, id, old_id) == [coll |-> coll, id |-> id, old_id |-> old_id]
Dests ==
    { <<Row("as", 42, 9), Row("as", 43, 9), Row("bs", 50, 9), Row("bs", 51, 8),
        Row("s", 60, 9)>> }

\* GET /{model}?_limit=..&_start=..: at most _limit entries from _start on
SourcePage(limit, start) ==
    SubSeq(source, start + 1, IF start + limit < Len(source) THEN start + limit
                              ELSE Len(source))

\* line 143: "_start": (page - 1) * BATCH_SIZE (mutant: page * BATCH_SIZE)
page_start_next(p) == p * BATCH_SIZE
page_start(p) == (p - 1) * BATCH_SIZE

\* response.raise_for_status(): 4xx and 5xx raise (mutant: never checked)
raise_for_status_unchecked(status) == FALSE
raise_for_status(status) == status >= 400

\* line 180: status_code != 200 and status_code != 201
create_failed(status) == status # 200 /\ status # 201

Error(stage, why) == [stage |-> stage, at |-> idx, why |-> why]

\* -------------------------------------------------------------- the run
Init ==
    /\ relEnv \in RelEnvs
    /\ BATCH_SIZE \in 1..MaxBatch
    /\ source \in Sources
    /\ dest \in Dests
    /\ pc = "auth"
    /\ page = 1
    /\ entries = <<>>
    /\ idx = 0
    /\ ops = <<>>
    /\ payload = <<>>
    /\ files = {}
    /\ nextMedia = 1
    /\ pageLog = <<>>
    /\ destLog = <<>>
    /\ transfers = <<>>
    /\ created = <<>>
    /\ printed = ""
    /\ errors = <<>>

\* get_strapi_3_token (lines 25-30), called from main (line 188)
Authenticate ==
    /\ pc = "auth"
    /\ \E status \in {200, 401} :
          /\ pc' = IF raise_for_status(status) THEN "failed" ELSE "fetch"
          /\ errors' = IF status >= 400 THEN Append(errors, Error("auth", "http"))
                       ELSE errors
    /\ UNCHANGED <<printed, relEnv, BATCH_SIZE, source, dest, page, entries, idx, ops,
                   payload, files, nextMedia, pageLog, destLog, transfers, created>>

\* one turn of the loop of fetch_entries_from_strapi_3 (lines 139-153)
FetchPage ==
    /\ pc = "fetch"
    /\ \E status \in {200, 500} :
          LET start == page_start(page)
              data == IF status = 200 THEN SourcePage(BATCH_SIZE, start) ELSE <<>>
          IN /\ pageLog' = Append(pageLog, [start |-> start, status |-> status,
                                            size |-> Len(data)])
             /\ errors' = IF status >= 400 THEN Append(errors, Error("fetch", "http"))
                          ELSE errors
             /\ IF raise_for_status(status)
                THEN pc' = "failed" /\ UNCHANGED <<entries, page, idx>>
                ELSE IF data = <<>>
                THEN pc' = "loop" /\ idx' = 1 /\ UNCHANGED <<entries, page>>
                ELSE /\ pc' = "fetch"
                     /\ entries' = entries \o data
                     /\ page' = page + 1
                     /\ UNCHANGED idx
    /\ UNCHANGED <<printed, relEnv, BATCH_SIZE, source, dest, ops, payload, files,
                   nextMedia, destLog, transfers, created>>
\* create_entries_in_strapi_4, line 159: the loop is over; main returns
Finish ==
    /\ pc = "loop"
    /\ idx > Len(entries)
    /\ pc' = "done"
    /\ UNCHANGED <<printed, relEnv, BATCH_SIZE, source, dest, page, entries, idx, ops,
                   payload, files, nextMedia, pageLog, destLog, transfers,
                   created, errors>>

\* lines 159-166: the next entry is taken and stripped; its passes begin
StartEntry ==
    /\ pc = "loop"
    /\ idx <= Len(entries)
    /\ LET t == Transform(entries[idx], nextMedia)
       IN ops' = t.ops /\ payload' = t.payload
    /\ pc' = "transform"
    /\ UNCHANGED <<relEnv, BATCH_SIZE, source, dest, page, entries, idx, files,
                   nextMedia, pageLog, destLog, transfers, created, printed, errors>>

\* download_media (lines 35-41); open("") cannot create a file
Download ==
    /\ pc = "transform"
    /\ ops # <<>> /\ Head(ops).op = "download"
    /\ \E status \in {200, 404} :
          LET name == file_name(Head(ops).url)
              written == status = 200 /\ name # ""
          IN /\ pc' = IF raise_for_status(status) \/ name = "" THEN "failed"
                      ELSE "transform"
             /\ files' = IF written THEN files \cup {name} ELSE files
             /\ transfers' = IF written
                             THEN Append(transfers, [url |-> Head(ops).url, id |-> 0])
                             ELSE transfers
             /\ errors' = IF ~written THEN Append(errors, Error("transform", "download"))
                          ELSE errors
    /\ ops' = Tail(ops)
    /\ UNCHANGED <<printed, relEnv, BATCH_SIZE, source, dest, page, entries, idx, payload,
                   nextMedia, pageLog, destLog, created>>

\* os.remove(file_path), line 53 (mutant: the file is left in place)
remove_skipped(file_path) == files
remove(file_path) == files \ {file_path}

\* upload_media_to_strapi_4 (lines 46-54)
Upload ==
    /\ pc = "transform"
    /\ ops # <<>> /\ Head(ops).op = "upload"
    /\ destLog' = Append(destLog, [kind |-> "upload", model |-> "", at |-> idx])
    /\ \E status \in {200, 500} :
          /\ pc' = IF raise_for_status(status) THEN "failed" ELSE "transform"
          /\ IF status = 200
             THEN /\ files' = remove(Head(ops).file)
                  /\ transfers' = [transfers EXCEPT ![Len(transfers)].id = nextMedia]
                  /\ nextMedia' = nextMedia + 1
                  /\ UNCHANGED errors
             ELSE /\ errors' = Append(errors, Error("transform", "upload"))
                  /\ UNCHANGED <<files, transfers, nextMedia>>
    /\ ops' = Tail(ops)
    /\ UNCHANGED <<printed, relEnv, BATCH_SIZE, source, dest, page, entries, idx, payload,
                   pageLog, created>>

\* fetch_related_id_in_strapi_4 (lines 81-91)
Lookup ==
    /\ pc = "transform"
    /\ ops # <<>> /\ Head(ops).op = "lookup"
    /\ destLog' = Append(destLog, [kind |-> "lookup", model |-> Head(ops).model,
                                   at |-> idx])
    /\ \E status \in {200, 500} :
          LET data == IF status = 200
                      THEN DestQuery(Head(ops).model, Head(ops).old) ELSE <<>>
          IN /\ pc' = IF raise_for_status(status) \/ not_found(data) THEN "failed"
                      ELSE "transform"
             /\ errors' = IF status >= 400
                          THEN Append(errors, Error("transform", "lookup"))
                          ELSE IF data = <<>>
                          THEN Append(errors, Error("transform", "notfound"))
                          ELSE errors
    /\ ops' = Tail(ops)
    /\ UNCHANGED <<printed, relEnv, BATCH_SIZE, source, dest, page, entries, idx, payload,
                   files, nextMedia, pageLog, transfers, created>>

\* a pass applies an operation to a value of the wrong type (lines 69, 72, 118)
RaiseTypeError ==
    /\ pc = "transform"
    /\ ops # <<>> /\ Head(ops).op = "raise"
    /\ pc' = "failed"
    /\ errors' = Append(errors, Error("transform", "typeerror"))
    /\ ops' = Tail(ops)
    /\ UNCHANGED <<printed, relEnv, BATCH_SIZE, source, dest, page, entries, idx, payload,
                   files, nextMedia, pageLog, destLog, transfers, created>>

\* lines 175-184: the creation request; its outcome is only printed
CreateEntry ==
    /\ pc = "transform"
    /\ ops = <<>>
    /\ destLog' = Append(destLog, [kind |-> "create", model |-> "", at |-> idx])
    /\ created' = Append(created, [k |-> idx, data |-> payload, files |-> files])
    /\ \E status \in {200, 201, 400} :
          printed' = IF create_failed(status) THEN "Failed to create entry"
                     ELSE "Successfully migrated entry"
    /\ idx' = idx + 1
    /\ pc' = "loop"
    /\ UNCHANGED <<relEnv, BATCH_SIZE, source, dest, page, entries, ops, payload,
                   files, nextMedia, pageLog, transfers, errors>>

Next ==
    \/ Authenticate
    \/ FetchPage
    \/ StartEntry
    \/ Download
    \/ Upload
    \/ Lookup
    \/ RaiseTypeError
    \/ CreateEntry
    \/ Finish

Spec == Init /\ [][Next]_vars
\* ================================================================ claims
CeilDiv(a, b) == (a + b - 1) \div b

\* fetch_entries_from_strapi_3 has returned (the create loop has its index)
FetchReturned == idx >= 1

\* the fields of a fetched entry that the passes get to see
PassFields(entry) ==
    {i \in 1..Len(entry) : entry[i].k \notin {"id", "created_at", "updated_at", "old_id"}}

IsInt(v, n) == v.t = "int" /\ v.n = n

\* C1 as stated: once fetching has returned, ceil((N+1)/P) page requests
\* were made for N source entries and page size P.
C1_AsStated ==
    FetchReturned => Len(pageLog) = CeilDiv(Len(source) + 1, BATCH_SIZE)

\* C1: fetching goes on as long as pages return entries and returns at the
\* first empty page; when it has returned, exactly ceil(N/P) + 1 page
\* requests were made, the last of them being the one with the empty page.
C1_PageRequests ==
    /\ \A i \in 1..Len(pageLog) :
          (i < Len(pageLog) \/ pc = "fetch") =>
              pageLog[i].status = 200 /\ pageLog[i].size > 0
    /\ FetchReturned =>
          /\ Len(pageLog) = CeilDiv(Len(source), BATCH_SIZE) + 1
          /\ pageLog[Len(pageLog)].status = 200
          /\ pageLog[Len(pageLog)].size = 0
          /\ entries = source

C1_Witness ==
    FetchReturned /\ Len(source) = 1 /\ BATCH_SIZE = 2 /\ Len(pageLog) = 2

\* C2: every payload sent to the creation endpoint has old_id equal to the
\* entry's source id and has no id, created_at or updated_at field.
C2_OldIdKept ==
    \A i \in 1..Len(created) :
        LET data == created[i].data
            entry == entries[created[i].k]
        IN /\ HasKey(data, "old_id")
           /\ Get(data, "old_id") = Get(entry, "id")
           /\ ~HasKey(data, "id")
           /\ ~HasKey(data, "created_at")
           /\ ~HasKey(data, "updated_at")

\* an entry with timestamps and an entry the passes rewrote were both sent
C2_Witness ==
    /\ \E i \in 1..Len(created) : HasKey(entries[created[i].k], "created_at")
    /\ \E i \in 1..Len(created) :
          \E j \in PassFields(entries[created[i].k]) :
              Get(created[i].data, entries[created[i].k][j].k)
                  # entries[created[i].k][j].v

\* C7: once a lookup finds no match, or a download, an upload or a lookup
\* fails, while entry k is in its passes, the run has stopped: no creation
\* request was or will be made for entry k or a later one, and the
\* requests made for the entries before k stand.
C7_TransformErrorStopsRun ==
    \A e \in 1..Len(errors) :
        errors[e].stage = "transform" =>
            /\ pc = "failed"
            /\ Len(created) = errors[e].at - 1
            /\ \A i \in 1..Len(created) : created[i].k = i

C7_Witness ==
    /\ pc = "failed"
    /\ \E e \in 1..Len(errors) : errors[e].why = "notfound" /\ errors[e].at = 2
    /\ Len(created) = 1

\* C8: a request reaches the destination only after authentication and
\* every page request, the one with the empty page included, succeeded; a
\* failed authentication or page request stops the run with no request
\* sent to the destination.
C8_FetchBeforeDestination ==
    /\ destLog # <<>> =>
          /\ FetchReturned
          /\ pageLog # <<>> /\ pageLog[Len(pageLog)].size = 0
          /\ \A i \in 1..Len(pageLog) : pageLog[i].status = 200
          /\ \A e \in 1..Len(errors) : errors[e].stage \notin {"auth", "fetch"}
    /\ (\E e \in 1..Len(errors) : errors[e].stage \in {"auth", "fetch"}) =>
          pc = "failed" /\ destLog = <<>> /\ transfers = <<>>

\* a page request failed after an earlier page had returned entries
C8_Witness ==
    /\ pc = "failed"
    /\ entries # <<>>
    /\ \E e \in 1..Len(errors) : errors[e].stage = "fetch"

\* C9: there is never more than one media file on disk: none is there
\* when a download is about to write one, and none when a creation
\* request is made.
C9_OneTemporaryFile ==
    /\ Cardinality(files) <= 1
    /\ (pc = "transform" /\ ops # <<>> /\ Head(ops).op = "download") => files = {}
    /\ \A i \in 1..Len(created) : created[i].files = {}

\* the second download of a run has written its file
C9_Witness ==
    /\ Cardinality(files) = 1
    /\ Len(transfers) >= 2
    /\ transfers[Len(transfers)].id = 0
\* ---- media, relationship and component references as the claims name them
MediaUrl(v) == urljoin(STRAPI_3_BASE_URL, Get(v.items, "url").s)
Resolved(model_name, old_id) == first_match(DestQuery(model_name, old_id))
IsRelRef(field, v) ==
    IsRelationshipField(field) /\ IsDict(v) /\ HasKey(v.items, "id")
IsRelRefList(field, v) ==
    /\ IsRelationshipField(field)
    /\ IsList(v)
    /\ \A j \in 1..Len(v.elems) : IsDict(v.elems[j]) /\ HasKey(v.elems[j].items, "id")
IsConnect(v) == IsDict(v) /\ HasKey(v.items, "connect")

\* the field holds the id that the transfer of v's url returned
HoldsMediaId(v, out) ==
    /\ out.t = "int"
    /\ \E p \in 1..Len(transfers) :
          transfers[p].url = MediaUrl(v) /\ transfers[p].id = out.n

\* the field holds the ids of consecutive transfers of the urls of elems
HoldsMediaIds(elems, out) ==
    /\ out.t = "list"
    /\ Len(out.elems) = Len(elems)
    /\ \E p \in 0..Len(transfers) :
          /\ p + Len(elems) <= Len(transfers)
          /\ \A j \in 1..Len(elems) :
                /\ transfers[p + j].url = MediaUrl(elems[j])
                /\ IsInt(out.elems[j], transfers[p + j].id)

\* C3 as stated: in every submitted payload a field that held one media
\* mapping holds the id of its transfer, and a field that held a sequence
\* of media mappings holds the ids of their transfers, in order.
C3_AsStated ==
    \A i \in 1..Len(created) :
        LET entry == entries[created[i].k]
        IN \A j \in PassFields(entry) :
              LET v == entry[j].v
                  out == Get(created[i].data, entry[j].k)
              IN /\ IsMedia(v) => HoldsMediaId(v, out)
                 /\ IsMediaList(v) => HoldsMediaIds(v.elems, out)

\* C3: as above, except that an empty sequence held by a field of the
\* relationship-field set is not kept as a sequence (it becomes a
\* connect-directive).
C3_MediaReplaced ==
    \A i \in 1..Len(created) :
        LET entry == entries[created[i].k]
        IN \A j \in PassFields(entry) :
              LET v == entry[j].v
                  out == Get(created[i].data, entry[j].k)
              IN /\ IsMedia(v) => HoldsMediaId(v, out)
                 /\ (IsMediaList(v)
                       /\ ~(v.elems = <<>> /\ IsRelationshipField(entry[j].k)))
                      => HoldsMediaIds(v.elems, out)
                 /\ (IsMediaList(v) /\ v.elems = <<>>
                       /\ IsRelationshipField(entry[j].k))
                      => IsConnect(out)

\* an entry with a single media field and a two-element media field was sent
C3_Witness ==
    \E i \in 1..Len(created) :
        LET entry == entries[created[i].k]
        IN /\ \E j \in PassFields(entry) : IsMedia(entry[j].v)
           /\ \E j \in PassFields(entry) :
                 IsMediaList(entry[j].v) /\ Len(entry[j].v.elems) = 2

\* C4: in every submitted payload a field of the relationship-field set
\* that held a mapping with id X holds {connect: [{id: resolved(X)}]}, and
\* one that held a sequence of mappings with ids holds the connect-directive
\* of their resolved ids, in order.
C4_RelationshipsConnected ==
    \A i \in 1..Len(created) :
        LET entry == entries[created[i].k]
        IN \A j \in PassFields(entry) :
              LET field == entry[j].k
                  v == entry[j].v
                  out == Get(created[i].data, field)
              IN /\ IsRelRef(field, v) =>
                       out = Connect(<<Resolved(field, Get(v.items, "id"))>>)
                 /\ IsRelRefList(field, v) =>
                       out = Connect([n \in 1..Len(v.elems) |->
                                 Resolved(field, Get(v.elems[n].items, "id"))])

\* the names the RELATIONSHIP_FIELDS setting lists; none when it is not set
ConfiguredFields == IF relEnv = <<>> THEN {} ELSE Range(Split(relEnv, ","))

\* C5: no lookup is made for a field outside the configured relationship
\* fields, and no such field of a submitted payload has become a
\* connect-directive, the setting left unset included.
C5_OtherFieldsUntouched ==
    /\ \A n \in 1..Len(destLog) :
          destLog[n].kind = "lookup" => destLog[n].model \in ConfiguredFields
    /\ \A i \in 1..Len(created) :
          LET entry == entries[created[i].k]
          IN \A j \in PassFields(entry) :
                (entry[j].k \notin ConfiguredFields /\ ~IsConnect(entry[j].v)) =>
                    ~IsConnect(Get(created[i].data, entry[j].k))

\* C6: creation requests are made one per entry, in source order, and when
\* the run is over every fetched entry has had its creation request.
C6_OneCreationPerEntry ==
    /\ \A i \in 1..Len(created) : created[i].k = i
    /\ (FetchReturned /\ pc \in {"done", "failed"}) => Len(created) = Len(entries)
\* ---- what one level of component descent amounts to
RECURSIVE SumTo(_, _)
SumTo(f, n) == IF n = 0 THEN 0 ELSE f[n] + SumTo(f, n - 1)

\* a value the media pass or the relationship pass of its mapping takes
Consumed(field, v) ==
    IsMedia(v) \/ IsMediaList(v) \/ IsRelRef(field, v) \/ IsRelRefList(field, v)

\* media references and relationship references among the fields of a mapping
MediaCount(items) ==
    SumTo([n \in 1..Len(items) |->
              IF IsMedia(items[n].v) THEN 1
              ELSE IF IsMediaList(items[n].v) THEN Len(items[n].v.elems)
              ELSE 0], Len(items))
RelCount(items) ==
    SumTo([n \in 1..Len(items) |->
              IF IsMedia(items[n].v) \/ IsMediaList(items[n].v) THEN 0
              ELSE IF IsRelRef(items[n].k, items[n].v) THEN 1
              ELSE IF IsRelRefList(items[n].k, items[n].v) THEN Len(items[n].v.elems)
              ELSE 0], Len(items))

\* a top-level value as the two top-level passes leave it, up to the ids
\* of uploads (which are numbers, and hold no component)
AfterTopPasses(field, v) ==
    IF IsMedia(v) \/ IsMediaList(v) THEN JNone
    ELSE IF IsRelRef(field, v) THEN Connect(<<Resolved(field, Get(v.items, "id"))>>)
    ELSE IF IsRelRefList(field, v)
    THEN Connect([n \in 1..Len(v.elems) |->
                     Resolved(field, Get(v.elems[n].items, "id"))])
    ELSE v

\* the components a top-level field holds when the descent gets to it
ComponentsOf(field, v) ==
    LET top == AfterTopPasses(field, v)
    IN IF IsDict(top) THEN <<top>>
       ELSE IF IsComponentList(top) THEN top.elems
       ELSE <<>>
ComponentsSent(field, v, out) ==
    LET top == AfterTopPasses(field, v)
    IN IF IsDict(top) /\ IsDict(out) THEN <<out>>
       ELSE IF IsComponentList(top) /\ IsList(out) THEN out.elems
       ELSE <<>>

\* a component as sent: its own references rewritten, all else as it was
ComponentRewritten(component, out) ==
    /\ IsDict(out)
    /\ Len(out.items) = Len(component.items)
    /\ \A n \in 1..Len(component.items) :
          LET g == component.items[n].k
              u == component.items[n].v
              w == out.items[n].v
          IN /\ out.items[n].k = g
             /\ IsMedia(u) => HoldsMediaId(u, w)
             /\ (IsMediaList(u) /\ u.elems # <<>>) => HoldsMediaIds(u.elems, w)
             /\ (IsRelRef(g, u) /\ ~IsMedia(u)) =>
                    w = Connect(<<Resolved(g, Get(u.items, "id"))>>)
             /\ ~Consumed(g, u) => w = u

\* requests of one kind made to the destination for entry k
DestRequests(kind, k) ==
    Cardinality({n \in 1..Len(destLog) : destLog[n].kind = kind /\ destLog[n].at = k})

====
